---- MODULE Spec2Model ----
(***************************************************************************)
(* Credential and session lifecycle of foundry-stack: the Session table,   *)
(* the refresh/access tokens minted by AuthService.issueTokens, and the    *)
(* request handlers that read and write the table (rotateRefresh with its  *)
(* revokeFamily cascade, logout, logoutAllDevices, the expiry sweep, the   *)
(* account deletion) together with the stateless access-token checks.      *)
(* Every await on the database is one step of a request process, so the    *)
(* reads and writes of concurrent requests interleave as they do on the    *)
(* Node.js event loop with a shared Postgres.                              *)
(***************************************************************************)
EXTENDS Integers, Sequences, FiniteSets, TLC

\* ---------------------------------------------------------------- bounds
MaxJti == 3           \* session rows (refresh tokens) ever created
MaxTime == 3          \* clock ticks explored
MaxClockJti == 2      \* session rows created in SpecClock
RefreshTtlTicks == 2  \* REFRESH_TTL_SECONDS, in clock ticks
AccessTtlTicks == 1   \* ACCESS_TTL, in clock ticks
TempTtlTicks == 1     \* expiresIn of signTemp, in clock ticks
MinPasswordLength == 8
MinAge == 18

Procs == {"p1", "p2"}         \* concurrently served requests
Users == {"u1", "u2"}         \* User.id values of the seeded principals
NewUsers == {"u3", "u4"}      \* User.id values given to registrations
AllUsers == Users \cup NewUsers
Devices == {"d1"}             \* deviceId values sent by clients
AllDevices == Devices \cup {"d2"}   \* with a second device of one client
Jtis == 1..MaxJti
ProcIndex == [p \in Procs |-> IF p = "p1" THEN 1 ELSE 2]

VARIABLES
  users,      \* table "User": id -> "present" | "deleted"
  sessions,   \* table "Session", keyed by refreshJti
  issued,     \* the token pairs minted so far; issued[j] carries jti j
  now,        \* the clock (Date.now(), jwt clockTimestamp)
  procs,      \* the rotateRefresh requests being served
  last,       \* the latest single-statement request: route and status
  parent,     \* history: the jti whose rotation created the node (0: login)
  creds,      \* table "User": email, passwordHash, twoFAEnabled, totpSecret
  devices,    \* table "Device": <<userId, deviceId>> -> lastSeenAt, -1: no row
  temps,      \* the temp tokens signed so far
  regs,       \* the register requests being served
  reply       \* the latest response of /register, /login or /verify-2fa

\* the state of the account routes
acct == <<creds, devices, temps, regs, reply>>

vars == <<users, sessions, issued, now, procs, last, parent,
          creds, devices, temps, regs, reply>>

\* ------------------------------------------------------------ Session rows
\* A row of table "Session"; present = FALSE stands for "no such row".
NoSession ==
  [present |-> FALSE, userId |-> "", deviceId |-> "", revoked |-> FALSE,
   replacedBy |-> 0, expiresAt |-> 0]

NewSession(userId, deviceId, expiresAt) ==
  [present |-> TRUE, userId |-> userId, deviceId |-> deviceId,
   revoked |-> FALSE, replacedBy |-> 0, expiresAt |-> expiresAt]

\* prisma.session.findUnique({ where: { refreshJti } }); jti 0 is "undefined"
findUnique(jti) == IF jti \in Jtis THEN sessions[jti] ELSE NoSession

Active(j) == sessions[j].present /\ ~sessions[j].revoked

\* ------------------------------------------------------------------ tokens
NoToken == [kind |-> "none", sig |-> FALSE, type |-> "", sub |-> "",
            jti |-> 0, did |-> "", exp |-> 0]
GarbageToken == [NoToken EXCEPT !.kind = "garbage"]

IssuedJtis == 1..Len(issued)

\* jwt.sign({ sub, type: 'refresh', jti, did }, secret, { expiresIn })
RefreshTokenOf(j) ==
  [kind |-> "jwt", sig |-> TRUE, type |-> "refresh", sub |-> issued[j].sub,
   jti |-> j, did |-> issued[j].did, exp |-> issued[j].iat + RefreshTtlTicks]

\* jwt.sign({ sub, type: 'access' }, secret, { expiresIn: ACCESS_TTL })
AccessTokenOf(j) ==
  [kind |-> "jwt", sig |-> TRUE, type |-> "access", sub |-> issued[j].sub,
   jti |-> 0, did |-> "", exp |-> issued[j].iat + AccessTtlTicks]

\* a well-formed token that was not signed with JWT_SECRET
ForgedToken == [kind |-> "jwt", sig |-> FALSE, type |-> "refresh", sub |-> "u1",
                jti |-> 1, did |-> "d1", exp |-> MaxTime + RefreshTtlTicks]

\* signTemp: jwt.sign({ sub, type: 'temp' }, secret, { expiresIn: '5m' })
TempTokenOf(c) ==
  [kind |-> "jwt", sig |-> TRUE, type |-> "temp", sub |-> c.sub,
   jti |-> 0, did |-> "", exp |-> c.iat + TempTtlTicks]

\* what a client can put into a request body or header
Presentable ==
  {NoToken, GarbageToken, ForgedToken}
    \cup {RefreshTokenOf(j) : j \in IssuedJtis}
    \cup {AccessTokenOf(j) : j \in IssuedJtis}
    \cup {TempTokenOf(c) : c \in temps}

\* jwt.verify(token, secret): the error name, or "" when the payload is returned
jwtVerify(t, clock) ==
  IF t.kind # "jwt" \/ ~t.sig THEN "JsonWebTokenError"
  ELSE IF clock >= t.exp THEN "TokenExpiredError"
  ELSE ""

\* --------------------------------------------------------------- responses
NoResp == [status |-> 0, error |-> "", message |-> ""]
Ok200 == [status |-> 200, error |-> "", message |-> ""]

\* thrown values: err.name, err.message, err.code, err.statusCode (0: not set)
ValidationError(msg) ==
  [name |-> "ValidationError", message |-> msg, code |-> "", statusCode |-> 400]
UnauthorizedError(msg) ==
  [name |-> "UnauthorizedError", message |-> msg, code |-> "", statusCode |-> 401]
ConflictError(msg) ==
  [name |-> "ConflictError", message |-> msg, code |-> "", statusCode |-> 409]
NoError == [name |-> "", message |-> "", code |-> "", statusCode |-> 0]
PrismaError(code) ==
  [name |-> "PrismaClientKnownRequestError", message |-> "", code |-> code,
   statusCode |-> 0]

\* the express error middleware, NODE_ENV other than "development"
errorHandler(err) ==
  IF err.name = "ValidationError"
    THEN [status |-> 400, error |-> "Validation Error", message |-> err.message]
  ELSE IF err.name = "JsonWebTokenError"
    THEN [status |-> 401, error |-> "Invalid Token",
          message |-> "Authentication token is invalid"]
  ELSE IF err.name = "TokenExpiredError"
    THEN [status |-> 401, error |-> "Token Expired",
          message |-> "Authentication token has expired"]
  ELSE IF err.name = "UnauthorizedError"
    THEN [status |-> 401, error |-> "Unauthorized",
          message |-> IF err.message # "" THEN err.message
                      ELSE "Authentication required"]
  ELSE IF err.code = "P2002"
    THEN [status |-> 409, error |-> "Conflict",
          message |-> "A record with this value already exists"]
  ELSE IF err.code = "P2025"
    THEN [status |-> 404, error |-> "Not Found",
          message |-> "The requested resource was not found"]
  ELSE [status |-> IF err.statusCode # 0 THEN err.statusCode ELSE 500,
        error |-> "Internal Server Error",
        message |-> "An unexpected error occurred"]

\* ---------------------------------------------------------------- accounts
\* the columns of a "User" row the account routes read and write
NoCreds ==
  [email |-> "", passwordHash |-> [alg |-> "", of |-> ""],
   twoFAEnabled |-> FALSE, totpSecret |-> ""]

\* bcrypt.hash(password, 12) and bcrypt.compare(password, hash)
bcryptHash(password) == [alg |-> "bcrypt", of |-> password]
bcryptCompare(password, hash) == hash = bcryptHash(password)

\* the users created by prisma/seed.js
SeedCreds ==
  [u \in AllUsers |->
     IF u = "u1" THEN [NoCreds EXCEPT !.email = "alice@example.com",
                                      !.passwordHash = bcryptHash("password123")]
     ELSE IF u = "u2" THEN [NoCreds EXCEPT !.email = "bob@example.com",
                                      !.passwordHash = bcryptHash("password123")]
     ELSE NoCreds]

\* what clients send as email, password, displayName and age
Emails == {"", "alice@example.com", "BOB@example.com", "nobody@example.com",
           "Carol@Example.com", "carol@example.com"}
Passwords == {"", "password123", "letmein99", "hunter2"}
Names == {"", "Carol"}
Ages == {17, 18}

\* the credentials tried at /login
LoginEmails == {"", "BOB@example.com", "nobody@example.com"}
LoginPasswords == {"", "password123", "letmein99"}

\* String.prototype.toLowerCase on the emails above
toLowerCase(e) ==
  CASE e = "BOB@example.com" -> "bob@example.com"
    [] e = "Carol@Example.com" -> "carol@example.com"
    [] OTHER -> e

\* password.length on the passwords above
length(password) ==
  CASE password = "" -> 0
    [] password = "hunter2" -> 7
    [] password = "letmein99" -> 9
    [] OTHER -> 11

\* prisma.user.findUnique({ where: { email } }): the ids of the rows found
findUserByEmail(email) ==
  {u \in AllUsers : users[u] = "present" /\ creds[u].email = email}

\* prisma.device.upsert on (userId, deviceId) with lastSeenAt: new Date()
upsertDevice(userId, deviceId) ==
  [devices EXCEPT ![<<userId, deviceId>>] = now]

NoReply == [op |-> "", kind |-> "", status |-> 0, error |-> "", message |-> ""]
Reply(op, kind, resp) ==
  [op |-> op, kind |-> kind, status |-> resp.status, error |-> resp.error,
   message |-> resp.message]

\* ------------------------------------------------------- request processes
\* A slot serves one POST /refresh at a time.  pc tells where the request
\* stands between two awaits:
\*   "done"       no request in progress; tok/newJti/resp are the last one's
\*   "rr_issue"   rotateRefresh read an active row, issueTokens comes next
\*   "rr_update"  issueTokens returned, the update of the old row comes next
\*   "rf_find"    revokeFamily(cur) was called, its findUnique comes next
\*   "rf_update"  revokeFamily(cur) read the row, its update comes next
\* tok is the verified payload, session the replacedBy of the row read by
\* rotateRefresh, curRB the replacedBy of the row read by revokeFamily.
Idle ==
  [pc |-> "done", tok |-> NoToken, session |-> 0, newJti |-> 0, cur |-> 0,
   curRB |-> 0, resp |-> NoResp]

Done(tok, session, newJti, resp) ==
  [pc |-> "done", tok |-> tok, session |-> session, newJti |-> newJti,
   cur |-> 0, curRB |-> 0, resp |-> resp]

InFlight(p) == procs[p].pc # "done"

\* A request takes the first free slot: the slots are interchangeable, so a
\* request that overlaps no other one is always served in the first slot.
CanBegin(p) ==
  /\ ~InFlight(p)
  /\ \A q \in Procs : ProcIndex[q] < ProcIndex[p] => InFlight(q)

\* a register request: "done" or, between the findUnique and the create,
\* "create"
NoReg == [pc |-> "done", email |-> "", password |-> "", resp |-> NoResp]

\* A response is kept in its slot while requests that overlapped it are in
\* progress; when a new request is received, older responses are dropped.
Forget(q) == IF InFlight(q) THEN procs[q] ELSE Idle

\* op: the route, status: the HTTP status, log: the line written to the log
NoLast == [op |-> "", status |-> 0, log |-> ""]

Init ==
  /\ users = [u \in AllUsers |-> IF u \in Users THEN "present" ELSE "absent"]
  /\ sessions = [j \in Jtis |-> NoSession]
  /\ issued = <<>>
  /\ now = 0
  /\ procs = [p \in Procs |-> Idle]
  /\ last = NoLast
  /\ parent = [j \in Jtis |-> 0]
  /\ creds = SeedCreds
  /\ devices = [k \in AllUsers \X AllDevices |-> -1]
  /\ temps = {}
  /\ regs = [p \in Procs |-> NoReg]
  /\ reply = NoReply

\* the clock advances
Tick ==
  /\ now < MaxTime
  /\ now' = now + 1
  /\ UNCHANGED <<users, sessions, issued, procs, last, parent, acct>>

\* (variant that stores every row under the first device)
issueTokens_OneDevice(userId, deviceId, from) ==
  LET jti == Len(issued) + 1 IN
  /\ issued' = Append(issued, [sub |-> userId, did |-> deviceId, iat |-> now])
  /\ sessions' = [sessions EXCEPT
                    ![jti] = NewSession(userId, "d1", now + RefreshTtlTicks)]
  /\ parent' = [parent EXCEPT ![jti] = from]

\* issueTokens: randomUUID, the two jwt.sign calls and prisma.session.create
issueTokens(userId, deviceId, from) ==
  LET jti == Len(issued) + 1 IN
  /\ issued' = Append(issued, [sub |-> userId, did |-> deviceId, iat |-> now])
  /\ sessions' = [sessions EXCEPT
                    ![jti] = NewSession(userId, deviceId, now + RefreshTtlTicks)]
  /\ parent' = [parent EXCEPT ![jti] = from]

\* login of a registered principal without second factor, correct password
Login(u, d) ==
  /\ users[u] = "present"
  /\ ~(creds[u].twoFAEnabled /\ creds[u].totpSecret # "")
  /\ Len(issued) < MaxJti
  /\ devices' = upsertDevice(u, d)
  /\ issueTokens(u, d, 0)
  /\ UNCHANGED <<users, now, procs, last, creds, temps, regs, reply>>

\* ------------------------------------------------------------------- login
\* (variant that tells an unknown email from a wrong password)
login_UserNotFound(email, password) ==
  IF email = "" \/ password = ""
    THEN [kind |-> "error", user |-> "",
          err |-> ValidationError("Email and password are required")]
  ELSE IF findUserByEmail(toLowerCase(email)) = {}
    THEN [kind |-> "error", user |-> "",
          err |-> UnauthorizedError("User not found")]
  ELSE LET user == CHOOSE u \in findUserByEmail(toLowerCase(email)) : TRUE IN
    IF ~bcryptCompare(password, creds[user].passwordHash)
      THEN [kind |-> "error", user |-> "",
            err |-> UnauthorizedError("Invalid email or password")]
    ELSE IF creds[user].twoFAEnabled /\ creds[user].totpSecret # ""
      THEN [kind |-> "challenge", user |-> user, err |-> NoError]
    ELSE [kind |-> "tokens", user |-> user, err |-> NoError]

\* (variant without the second-factor branch)
login_SkipsTwoFA(email, password) ==
  IF email = "" \/ password = ""
    THEN [kind |-> "error", user |-> "",
          err |-> ValidationError("Email and password are required")]
  ELSE IF findUserByEmail(toLowerCase(email)) = {}
    THEN [kind |-> "error", user |-> "",
          err |-> UnauthorizedError("Invalid email or password")]
  ELSE LET user == CHOOSE u \in findUserByEmail(toLowerCase(email)) : TRUE IN
    IF ~bcryptCompare(password, creds[user].passwordHash)
      THEN [kind |-> "error", user |-> "",
            err |-> UnauthorizedError("Invalid email or password")]
    ELSE [kind |-> "tokens", user |-> user, err |-> NoError]

\* login(email, password) up to the point where it throws, signs a temp token
\* or issues tokens (AuthService.js 66-120)
login(email, password) ==
  IF email = "" \/ password = ""
    THEN [kind |-> "error", user |-> "",
          err |-> ValidationError("Email and password are required")]
  ELSE IF findUserByEmail(toLowerCase(email)) = {}
    THEN [kind |-> "error", user |-> "",
          err |-> UnauthorizedError("Invalid email or password")]
  ELSE LET user == CHOOSE u \in findUserByEmail(toLowerCase(email)) : TRUE IN
    IF ~bcryptCompare(password, creds[user].passwordHash)
      THEN [kind |-> "error", user |-> "",
            err |-> UnauthorizedError("Invalid email or password")]
    ELSE IF creds[user].twoFAEnabled /\ creds[user].totpSecret # ""
      THEN [kind |-> "challenge", user |-> user, err |-> NoError]
    ELSE [kind |-> "tokens", user |-> user, err |-> NoError]

\* POST /login
LoginRequest(email, password, d) ==
  LET r == login(email, password) IN
  /\ email \in Emails /\ password \in Passwords
  /\ CASE r.kind = "error" ->
           /\ reply' = Reply("login", "error", errorHandler(r.err))
           /\ UNCHANGED <<sessions, issued, parent, devices, temps>>
       [] r.kind = "challenge" ->
           /\ devices' = upsertDevice(r.user, d)
           /\ temps' = temps \cup {[sub |-> r.user, iat |-> now]}
           /\ reply' = Reply("login", "challenge",
                              [Ok200 EXCEPT !.message = "Please provide 2FA code"])
           /\ UNCHANGED <<sessions, issued, parent>>
       [] r.kind = "tokens" ->
           /\ Len(issued) < MaxJti
           /\ devices' = upsertDevice(r.user, d)
           /\ issueTokens(r.user, d, 0)
           /\ reply' = Reply("login", "tokens", Ok200)
           /\ UNCHANGED temps
  /\ UNCHANGED <<users, now, procs, last, creds, regs>>

\* --------------------------------------------------------------- verify2FA
\* the code an authenticator shows for a secret at a time, and the codes a
\* client may send: none, the current one, the one of the step before
totp(secret, clock) == [secret |-> secret, step |-> clock]
NoCode == [secret |-> "", step |-> -1]
Codes(clock) == {NoCode, totp("JBSWY3DP", clock), totp("JBSWY3DP", clock - 1)}

\* otplib.authenticator.check(code, secret)
authenticatorCheck(code, secret, clock) == code = totp(secret, clock)

\* (variant without the check of the code)
verify2FA_AnyCode(t, code, clock) ==
  IF t.kind = "none" \/ code = NoCode
    THEN [kind |-> "error", user |-> "",
          err |-> ValidationError("Temp token and 2FA code are required")]
  ELSE IF jwtVerify(t, clock) # ""
    THEN [kind |-> "error", user |-> "",
          err |-> UnauthorizedError("Invalid or expired temp token")]
  ELSE IF t.type # "temp"
    THEN [kind |-> "error", user |-> "",
          err |-> UnauthorizedError("Invalid token type")]
  ELSE IF \/ users[t.sub] # "present"
          \/ ~creds[t.sub].twoFAEnabled
          \/ creds[t.sub].totpSecret = ""
    THEN [kind |-> "error", user |-> "",
          err |-> UnauthorizedError("2FA not enabled for this user")]
  ELSE [kind |-> "tokens", user |-> t.sub, err |-> NoError]

\* (variant without the check of the type tag)
verify2FA_AnyType(t, code, clock) ==
  IF t.kind = "none" \/ code = NoCode
    THEN [kind |-> "error", user |-> "",
          err |-> ValidationError("Temp token and 2FA code are required")]
  ELSE IF jwtVerify(t, clock) # ""
    THEN [kind |-> "error", user |-> "",
          err |-> UnauthorizedError("Invalid or expired temp token")]
  ELSE IF \/ users[t.sub] # "present"
          \/ ~creds[t.sub].twoFAEnabled
          \/ creds[t.sub].totpSecret = ""
    THEN [kind |-> "error", user |-> "",
          err |-> UnauthorizedError("2FA not enabled for this user")]
  ELSE IF ~authenticatorCheck(code, creds[t.sub].totpSecret, clock)
    THEN [kind |-> "error", user |-> "",
          err |-> UnauthorizedError("Invalid 2FA code")]
  ELSE [kind |-> "tokens", user |-> t.sub, err |-> NoError]

\* verify2FA(tempToken, code) up to the point where it throws or issues
\* tokens (part_006 62-64, AuthService.js 133-167)
verify2FA(t, code, clock) ==
  IF t.kind = "none" \/ code = NoCode
    THEN [kind |-> "error", user |-> "",
          err |-> ValidationError("Temp token and 2FA code are required")]
  ELSE IF jwtVerify(t, clock) # ""
    THEN [kind |-> "error", user |-> "",
          err |-> UnauthorizedError("Invalid or expired temp token")]
  ELSE IF t.type # "temp"
    THEN [kind |-> "error", user |-> "",
          err |-> UnauthorizedError("Invalid token type")]
  ELSE IF \/ users[t.sub] # "present"
          \/ ~creds[t.sub].twoFAEnabled
          \/ creds[t.sub].totpSecret = ""
    THEN [kind |-> "error", user |-> "",
          err |-> UnauthorizedError("2FA not enabled for this user")]
  ELSE IF ~authenticatorCheck(code, creds[t.sub].totpSecret, clock)
    THEN [kind |-> "error", user |-> "",
          err |-> UnauthorizedError("Invalid 2FA code")]
  ELSE [kind |-> "tokens", user |-> t.sub, err |-> NoError]

\* POST /verify-2fa
Verify2FA(t, code, d) ==
  LET r == verify2FA(t, code, now) IN
  /\ t \in Presentable /\ code \in Codes(now)
  /\ IF r.kind = "error"
       THEN /\ reply' = Reply("verify-2fa", "error", errorHandler(r.err))
            /\ UNCHANGED <<sessions, issued, parent>>
       ELSE /\ Len(issued) < MaxJti
            /\ issueTokens(r.user, d, 0)
            /\ reply' = Reply("verify-2fa", "tokens", Ok200)
  /\ UNCHANGED <<users, now, procs, last, creds, devices, temps, regs>>

\* ----------------------------------------------------------------- register
RegisterEmails == {"", "BOB@example.com", "Carol@Example.com", "carol@example.com"}

Created201 == [status |-> 201, error |-> "",
               message |-> "Registration successful. Please log in."]

\* register(email, password, displayName, age) up to prisma.user.create
\* (AuthService.js 21-45): the error it throws, or NoError
register(email, password, displayName, age) ==
  IF email = "" \/ password = "" \/ displayName = ""
    THEN ValidationError("Email, password, and display name are required")
  ELSE IF length(password) < MinPasswordLength
    THEN ValidationError("Password must be at least 8 characters")
  ELSE IF age < MinAge
    THEN ValidationError("You must be 18 or older to register")
  ELSE IF findUserByEmail(toLowerCase(email)) # {}
    THEN ConflictError("Email already registered")
  ELSE NoError

\* POST /register up to the point where register awaits bcrypt.hash
RegisterBegin(p, email, password, displayName, age) ==
  LET err == register(email, password, displayName, age) IN
  /\ regs[p].pc = "done"
  /\ regs' = [regs EXCEPT ![p] =
       IF err # NoError
         THEN [pc |-> "done", email |-> email, password |-> password,
               resp |-> errorHandler(err)]
         ELSE [pc |-> "create", email |-> email, password |-> password,
               resp |-> NoResp]]
  /\ UNCHANGED <<users, sessions, issued, now, procs, last, parent,
                 creds, devices, temps, reply>>

\* (variant without the unique index on "User"."email")
User_email_key_Dropped(email) == TRUE

\* CREATE UNIQUE INDEX "User_email_key": may a row with this email be inserted
User_email_key(email) == findUserByEmail(email) = {}

\* the id of the row prisma.user.create inserts
NewUserId == IF users["u3"] = "absent" THEN "u3" ELSE "u4"

\* prisma.user.create and the 201 response (AuthService.js 48-60); the insert
\* fails with P2002 when the unique index on the email is violated
RegisterCreate(p) ==
  LET email == toLowerCase(regs[p].email) IN
  /\ regs[p].pc = "create"
  /\ IF ~User_email_key(email)
       THEN /\ regs' = [regs EXCEPT ![p] = [@ EXCEPT !.pc = "done",
                           !.resp = errorHandler(PrismaError("P2002"))]]
            /\ UNCHANGED <<users, creds>>
       ELSE /\ \E u \in NewUsers : users[u] = "absent"
            /\ users' = [users EXCEPT ![NewUserId] = "present"]
            /\ creds' = [creds EXCEPT ![NewUserId] =
                 [email |-> email,
                  passwordHash |-> bcryptHash(regs[p].password),
                  twoFAEnabled |-> FALSE, totpSecret |-> ""]]
            /\ regs' = [regs EXCEPT ![p] = [@ EXCEPT !.pc = "done",
                                                     !.resp = Created201]]
  /\ UNCHANGED <<sessions, issued, now, procs, last, parent,
                 devices, temps, reply>>

\* a principal turns the second factor on: twoFAEnabled and totpSecret are set
EnableTwoFA(u) ==
  /\ users[u] = "present"
  /\ ~creds[u].twoFAEnabled
  /\ creds' = [creds EXCEPT ![u] = [@ EXCEPT !.twoFAEnabled = TRUE,
                                             !.totpSecret = "JBSWY3DP"]]
  /\ UNCHANGED <<users, sessions, issued, now, procs, last, parent,
                 devices, temps, regs, reply>>

\* ------------------------------------------------------------ rotateRefresh
\* (variant that decodes the token without verifying its expiry)
RotateReject_Decode(t, session, clock) ==
  IF t.kind = "none"
    THEN errorHandler(ValidationError("Refresh token is required"))
  ELSE IF t.kind # "jwt" \/ ~t.sig
    THEN errorHandler(UnauthorizedError("Invalid or expired refresh token"))
  ELSE IF t.type # "refresh"
    THEN errorHandler(UnauthorizedError("Invalid token type"))
  ELSE IF ~session.present
    THEN errorHandler(UnauthorizedError("Session not found"))
  ELSE NoResp

\* The response of rotateRefresh to a token it rejects before or at the
\* lookup of the row, NoResp when the call goes on (AuthService.js 214-243).
RotateReject(t, session, clock) ==
  IF t.kind = "none"
    THEN errorHandler(ValidationError("Refresh token is required"))
  ELSE IF jwtVerify(t, clock) # ""
    THEN errorHandler(UnauthorizedError("Invalid or expired refresh token"))
  ELSE IF t.type # "refresh"
    THEN errorHandler(UnauthorizedError("Invalid token type"))
  ELSE IF ~session.present
    THEN errorHandler(UnauthorizedError("Session not found"))
  ELSE NoResp

\* rotateRefresh up to the checks on the row it looked up (214-245)
Rotate(p, t) ==
  LET session == findUnique(t.jti)
      reject == RotateReject(t, session, now) IN
  /\ CanBegin(p)
  /\ t \in Presentable
  /\ procs' = [q \in Procs |->
       IF q # p THEN Forget(q)
       ELSE IF reject # NoResp THEN Done(NoToken, 0, 0, reject)
       ELSE IF session.revoked
         THEN [Idle EXCEPT !.pc = "rf_find", !.tok = t, !.cur = t.jti,
                           !.session = session.replacedBy]
       ELSE [Idle EXCEPT !.pc = "rr_issue", !.tok = t]]
  /\ UNCHANGED <<users, sessions, issued, now, last, parent, acct>>

\* this.issueTokens(payload.sub, payload.did) (246); the insert fails on the
\* foreign key when the account was deleted meanwhile
RotateIssue(p) ==
  LET payload == procs[p].tok IN
  /\ procs[p].pc = "rr_issue"
  /\ IF users[payload.sub] # "present"
       THEN /\ procs' = [procs EXCEPT ![p] =
                 Done(payload, 0, 0, errorHandler(PrismaError("P2003")))]
            /\ UNCHANGED <<sessions, issued, parent>>
       ELSE /\ Len(issued) < MaxJti
            /\ issueTokens(payload.sub, payload.did, payload.jti)
            /\ procs' = [procs EXCEPT ![p] =
                 [@ EXCEPT !.pc = "rr_update", !.newJti = Len(issued) + 1]]
  /\ UNCHANGED <<users, now, last, acct>>

\* (variant that writes the jti of the row itself as its successor)
markRotated_SelfLink(jti, successorJti) ==
  [sessions EXCEPT ![jti] = [@ EXCEPT !.revoked = TRUE, !.replacedBy = jti]]

\* (variant that records the successor and leaves the row active)
markRotated_KeepsActive(jti, successorJti) ==
  [sessions EXCEPT ![jti] = [@ EXCEPT !.replacedBy = successorJti]]

\* prisma.session.update({ where: { refreshJti }, data: { revoked, replacedBy } })
markRotated(jti, successorJti) ==
  [sessions EXCEPT ![jti] = [@ EXCEPT !.revoked = TRUE,
                                      !.replacedBy = successorJti]]

\* the update of the old row and the return of the new pair (249-259)
RotateUpdate(p) ==
  LET payload == procs[p].tok IN
  /\ procs[p].pc = "rr_update"
  /\ IF ~sessions[payload.jti].present
       THEN /\ procs' = [procs EXCEPT ![p] =
                 Done(payload, 0, 0, errorHandler(PrismaError("P2025")))]
            /\ UNCHANGED sessions
       ELSE /\ sessions' = markRotated(payload.jti, procs[p].newJti)
            /\ procs' = [procs EXCEPT ![p] =
                 Done(payload, 0, procs[p].newJti, Ok200)]
  /\ UNCHANGED <<users, issued, now, last, parent, acct>>

\* ------------------------------------------------------------- revokeFamily
\* rotateRefresh throws 'Token has been revoked' once revokeFamily returned
ReuseRejected(p) ==
  procs' = [procs EXCEPT ![p] =
    Done(procs[p].tok, procs[p].session, 0,
         errorHandler(UnauthorizedError("Token has been revoked")))]

\* revokeFamily(jti): findUnique, return when there is no row (266-270)
RevokeFamilyFind(p) ==
  LET session == findUnique(procs[p].cur) IN
  /\ procs[p].pc = "rf_find"
  /\ IF ~session.present
       THEN ReuseRejected(p)
       ELSE procs' = [procs EXCEPT ![p] =
              [@ EXCEPT !.pc = "rf_update", !.curRB = session.replacedBy]]
  /\ UNCHANGED <<users, sessions, issued, now, last, parent, acct>>

\* (variant that flips the flag)
markRevoked_Toggle(S, jti) == [S EXCEPT ![jti] = [@ EXCEPT !.revoked = ~@]]

\* (variant that revokes every row of the owner of row jti)
markRevoked_WholePrincipal(S, jti) ==
  [j \in Jtis |-> IF S[j].present /\ S[j].userId = S[jti].userId
                    THEN [S[j] EXCEPT !.revoked = TRUE] ELSE S[j]]

\* prisma.session.update({ where: { refreshJti: jti }, data: { revoked: true } })
\* on registry S
markRevoked(S, jti) == [S EXCEPT ![jti] = [@ EXCEPT !.revoked = TRUE]]

\* revokeFamily(jti): the update, then the recursion on replacedBy (273-281)
RevokeFamilyUpdate(p) ==
  /\ procs[p].pc = "rf_update"
  /\ IF ~sessions[procs[p].cur].present
       THEN /\ procs' = [procs EXCEPT ![p] =
                 Done(procs[p].tok, procs[p].session, 0,
                      errorHandler(PrismaError("P2025")))]
            /\ UNCHANGED sessions
       ELSE /\ sessions' = markRevoked(sessions, procs[p].cur)
            /\ IF procs[p].curRB # 0
                 THEN procs' = [procs EXCEPT ![p] =
                        [@ EXCEPT !.pc = "rf_find", !.cur = procs[p].curRB,
                                  !.curRB = 0]]
                 ELSE ReuseRejected(p)
  /\ UNCHANGED <<users, issued, now, last, parent, acct>>

\* the process stops while it serves request p: no later statement of the
\* handler runs and no response is sent; what was written stays written, as
\* no write of rotateRefresh or revokeFamily is inside a transaction
Stop(p) ==
  /\ InFlight(p)
  /\ procs' = [procs EXCEPT ![p] = [@ EXCEPT !.pc = "done", !.resp = NoResp]]
  /\ UNCHANGED <<users, sessions, issued, now, last, parent, acct>>

\* ------------------------------------------------------------------- logout
\* (variant that also revokes the successor of the row)
logout_Cascade(S, t, clock) ==
  IF t.kind = "none" THEN [sessions |-> S, status |-> 200, log |-> ""]
  ELSE IF jwtVerify(t, clock) # ""
    THEN [sessions |-> S, status |-> 200, log |-> "Logout with invalid token"]
  ELSE IF t.jti \notin Jtis \/ ~S[t.jti].present
    THEN [sessions |-> S, status |-> 200, log |-> "Logout with invalid token"]
  ELSE [sessions |->
          IF S[t.jti].replacedBy # 0
            THEN markRevoked(markRevoked(S, t.jti), S[t.jti].replacedBy)
            ELSE markRevoked(S, t.jti),
        status |-> 200, log |-> "User logged out"]

\* (variant that reads the payload without checking the expiry)
logout_Decode(S, t, clock) ==
  IF t.kind = "none" THEN [sessions |-> S, status |-> 200, log |-> ""]
  ELSE IF t.kind # "jwt" \/ ~t.sig \/ t.jti \notin Jtis \/ ~S[t.jti].present
    THEN [sessions |-> S, status |-> 200, log |-> "Logout with invalid token"]
  ELSE [sessions |-> markRevoked(S, t.jti), status |-> 200,
        log |-> "User logged out"]

\* logout(refreshToken) on registry S: the registry it leaves, the status of
\* the response and the line it logs.  An error of jwt.verify or of the update
\* (no row with that jti, no jti in the payload) is caught (289-309).
logout(S, t, clock) ==
  IF t.kind = "none" THEN [sessions |-> S, status |-> 200, log |-> ""]
  ELSE IF jwtVerify(t, clock) # ""
    THEN [sessions |-> S, status |-> 200, log |-> "Logout with invalid token"]
  ELSE IF t.jti \notin Jtis \/ ~S[t.jti].present
    THEN [sessions |-> S, status |-> 200, log |-> "Logout with invalid token"]
  ELSE [sessions |-> markRevoked(S, t.jti), status |-> 200,
        log |-> "User logged out"]

\* POST /logout
Logout(t) ==
  LET r == logout(sessions, t, now) IN
  /\ t \in Presentable
  /\ sessions' = r.sessions
  /\ last' = [op |-> "logout", status |-> r.status, log |-> r.log]
  /\ UNCHANGED <<users, issued, now, procs, parent, acct>>

\* ------------------------------------------------- access-token verification
\* an Authorization header: absent, not a Bearer header, or "Bearer " + token
NoHeader == [present |-> FALSE, bearer |-> FALSE, token |-> NoToken]
BasicHeader == [present |-> TRUE, bearer |-> FALSE, token |-> NoToken]
Bearer(t) == [present |-> TRUE, bearer |-> TRUE, token |-> t]
Headers == {NoHeader, BasicHeader} \cup {Bearer(t) : t \in Presentable}

\* (variant that also asks for an active row of the principal)
authenticate_ChecksSession(h, clock) ==
  IF ~h.present THEN ""
  ELSE IF ~h.bearer THEN ""
  ELSE IF h.token.kind = "none" THEN ""
  ELSE IF jwtVerify(h.token, clock) # "" THEN ""
  ELSE IF h.token.type # "access" THEN ""
  ELSE IF ~\E j \in Jtis : sessions[j].userId = h.token.sub /\ Active(j) THEN ""
  ELSE h.token.sub

\* the authenticate middleware: the principal put into req.userId, "" when
\* the request is answered 401 (metrics.js 132-183)
authenticate(h, clock) ==
  IF ~h.present THEN ""
  ELSE IF ~h.bearer THEN ""
  ELSE IF h.token.kind = "none" THEN ""
  ELSE IF jwtVerify(h.token, clock) # "" THEN ""
  ELSE IF h.token.type # "access" THEN ""
  ELSE h.token.sub

\* the Socket.IO handshake middleware: socket.userId, "" when refused
socketAuth(t, clock) ==
  IF t.kind = "none" THEN ""
  ELSE IF jwtVerify(t, clock) # "" THEN ""
  ELSE IF t.type # "access" THEN ""
  ELSE t.sub

\* a request to a route guarded by authenticate that touches no session
Authenticate(h) ==
  /\ h \in Headers
  /\ last' = [op |-> "authenticate", log |-> "",
              status |-> IF authenticate(h, now) # "" THEN 200 ELSE 401]
  /\ UNCHANGED <<users, sessions, issued, now, procs, parent, acct>>

\* a Socket.IO connection attempt
SocketAuth(t) ==
  /\ t \in Presentable
  /\ last' = [op |-> "socket", log |-> "",
              status |-> IF socketAuth(t, now) # "" THEN 200 ELSE 401]
  /\ UNCHANGED <<users, sessions, issued, now, procs, parent, acct>>

\* ---------------------------------------------------------- logoutAllDevices
\* (variant that deletes the rows of the principal)
revokeAll_Purge(userId) ==
  [j \in Jtis |->
     IF sessions[j].present /\ sessions[j].userId = userId
       THEN NoSession
       ELSE sessions[j]]

\* (variant without the userId filter)
revokeAll_AnyUser(userId) ==
  [j \in Jtis |->
     IF sessions[j].present /\ ~sessions[j].revoked
       THEN [sessions[j] EXCEPT !.revoked = TRUE]
       ELSE sessions[j]]

\* prisma.session.updateMany({ where: { userId, revoked: false }, ... })
revokeAll(userId) ==
  [j \in Jtis |->
     IF sessions[j].present /\ sessions[j].userId = userId /\ ~sessions[j].revoked
       THEN [sessions[j] EXCEPT !.revoked = TRUE]
       ELSE sessions[j]]

\* POST /logout-all: authenticate, then logoutAllDevices(req.userId)
LogoutAllDevices(h) ==
  LET userId == authenticate(h, now) IN
  /\ h \in Headers
  /\ IF userId = ""
       THEN /\ last' = [op |-> "logoutAll", status |-> 401, log |-> ""]
            /\ UNCHANGED sessions
       ELSE /\ sessions' = revokeAll(userId)
            /\ last' = [op |-> "logoutAll", status |-> 200,
                        log |-> "User logged out from all devices"]
  /\ UNCHANGED <<users, issued, now, procs, parent, acct>>

\* ------------------------------------------------------------- other writers
\* DELETE /sessions/:sessionId: authenticate, look the row up by id, refuse a
\* row of another principal, update revoked (part_006 275-306); the row with
\* refreshJti j stands for the id of that row
RevokeSession(h, j) ==
  LET userId == authenticate(h, now) IN
  /\ h \in Headers /\ j \in Jtis
  /\ IF userId = ""
       THEN /\ last' = [op |-> "revokeSession", status |-> 401, log |-> ""]
            /\ UNCHANGED sessions
       ELSE IF ~sessions[j].present \/ sessions[j].userId # userId
         THEN /\ last' = [op |-> "revokeSession",
                          status |-> errorHandler(ValidationError("Session not found")).status,
                          log |-> ""]
              /\ UNCHANGED sessions
       ELSE /\ sessions' = markRevoked(sessions, j)
            /\ last' = [op |-> "revokeSession", status |-> 200, log |-> ""]
  /\ UNCHANGED <<users, issued, now, procs, parent, acct>>

\* DELETE /me/devices/:deviceId: authenticate, prisma.device.delete (P2025
\* when there is no such device), then updateMany on the sessions of that
\* device (part_007 318-345)
RemoveDevice(h, d) ==
  LET userId == authenticate(h, now) IN
  /\ h \in Headers /\ d \in Devices
  /\ IF userId = ""
       THEN /\ last' = [op |-> "removeDevice", status |-> 401, log |-> ""]
            /\ UNCHANGED <<sessions, devices>>
       ELSE IF devices[<<userId, d>>] < 0
         THEN /\ last' = [op |-> "removeDevice",
                          status |-> errorHandler(PrismaError("P2025")).status,
                          log |-> ""]
              /\ UNCHANGED <<sessions, devices>>
       ELSE /\ devices' = [devices EXCEPT ![<<userId, d>>] = -1]
            /\ sessions' = [j \in Jtis |->
                 IF /\ sessions[j].present /\ sessions[j].userId = userId
                    /\ sessions[j].deviceId = d
                   THEN [sessions[j] EXCEPT !.revoked = TRUE] ELSE sessions[j]]
            /\ last' = [op |-> "removeDevice", status |-> 200, log |-> ""]
  /\ UNCHANGED <<users, issued, now, procs, parent, creds, temps, regs, reply>>

\* (variant that also deletes the rows that expire within the next tick)
cleanupExpiredSessions_Early ==
  /\ sessions' = [j \in Jtis |->
       IF sessions[j].present /\ sessions[j].expiresAt < now + 2
         THEN NoSession ELSE sessions[j]]
  /\ sessions' # sessions
  /\ UNCHANGED <<users, issued, now, procs, last, parent, acct>>

\* cleanupExpiredSessions: deleteMany({ where: { expiresAt: { lt: new Date() } } })
cleanupExpiredSessions ==
  /\ sessions' = [j \in Jtis |->
       IF sessions[j].present /\ sessions[j].expiresAt < now
         THEN NoSession ELSE sessions[j]]
  /\ sessions' # sessions
  /\ UNCHANGED <<users, issued, now, procs, last, parent, acct>>

\* POST /api/privacy/delete with the right password: the transaction that
\* deletes the principal's sessions and the principal (privacy.js 96-189)
DeleteAccount(h) ==
  LET userId == authenticate(h, now) IN
  /\ h \in Headers
  /\ userId # ""
  /\ users[userId] = "present"
  /\ users' = [users EXCEPT ![userId] = "deleted"]
  /\ creds' = [creds EXCEPT ![userId] = NoCreds]
  /\ sessions' = [j \in Jtis |->
       IF sessions[j].present /\ sessions[j].userId = userId
         THEN NoSession ELSE sessions[j]]
  /\ devices' = [k \in AllUsers \X AllDevices |->
       IF k[1] = userId THEN -1 ELSE devices[k]]
  /\ UNCHANGED <<issued, now, procs, last, parent, temps, regs, reply>>

\* ------------------------------------------------------------ specifications
\* Spec: overlapping POST /refresh requests of one principal, with logins and
\* logouts, within the lifetime of the tokens (the clock stands still).
Next ==
  \/ \E d \in Devices : Login("u1", d)
  \/ \E p \in Procs, t \in Presentable : Rotate(p, t)
  \/ \E p \in Procs : RotateIssue(p)
  \/ \E p \in Procs : RotateUpdate(p)
  \/ \E p \in Procs : RevokeFamilyFind(p)
  \/ \E p \in Procs : RevokeFamilyUpdate(p)
  \/ \E t \in Presentable : Logout(t)

Spec == Init /\ [][Next]_vars

\* SpecStop: the POST /refresh requests of one principal, served one at a
\* time, any of which may be cut short by a stop of the process.
NextStop ==
  \/ \E d \in Devices : Login("u1", d)
  \/ \E t \in Presentable : Rotate("p1", t)
  \/ RotateIssue("p1")
  \/ RotateUpdate("p1")
  \/ RevokeFamilyFind("p1")
  \/ RevokeFamilyUpdate("p1")
  \/ Stop("p1")
  \/ \E h \in Headers : LogoutAllDevices(h)

SpecStop == Init /\ [][NextStop]_vars

\* SpecExpiry: POST /refresh requests served one at a time while the clock
\* runs, the sweep deletes expired rows and the account may be deleted.
NextExpiry ==
  \/ Tick
  \/ Len(issued) < MaxClockJti /\ \E d \in Devices : Login("u1", d)
  \/ \E t \in Presentable : Rotate("p1", t)
  \/ Len(issued) < MaxClockJti /\ RotateIssue("p1")
  \/ RotateUpdate("p1")
  \/ RevokeFamilyFind("p1")
  \/ RevokeFamilyUpdate("p1")
  \/ cleanupExpiredSessions
  \/ \E h \in Headers : DeleteAccount(h)

SpecExpiry == Init /\ [][NextExpiry]_vars

\* SpecRegistry: rotateRefresh (one request at a time), logout,
\* logoutAllDevices and the sweep while the clock runs.
NextRegistry ==
  \/ Tick
  \/ Len(issued) < MaxClockJti /\ \E d \in Devices : Login("u1", d)
  \/ \E t \in Presentable : Rotate("p1", t)
  \/ Len(issued) < MaxClockJti /\ RotateIssue("p1")
  \/ RotateUpdate("p1")
  \/ RevokeFamilyFind("p1")
  \/ RevokeFamilyUpdate("p1")
  \/ \E t \in Presentable : Logout(t)
  \/ \E h \in Headers : LogoutAllDevices(h)
  \/ cleanupExpiredSessions

SpecRegistry == Init /\ [][NextRegistry]_vars

\* SpecWalk: logins, logouts and POST /refresh requests of one principal
\* served one at a time; a revokeFamily that was called runs on: every await
\* of the walk is a query whose promise settles.
NextWalk ==
  \/ \E d \in Devices : Login("u1", d)
  \/ \E t \in Presentable : Rotate("p1", t)
  \/ RotateIssue("p1")
  \/ RotateUpdate("p1")
  \/ RevokeFamilyFind("p1")
  \/ RevokeFamilyUpdate("p1")
  \/ \E t \in Presentable : Logout(t)

SpecWalk ==
  /\ Init /\ [][NextWalk]_vars
  /\ WF_vars(RevokeFamilyFind("p1"))
  /\ WF_vars(RevokeFamilyUpdate("p1"))

\* SpecIssue: the three routes that issue a token pair, for two principals
\* and two devices, with POST /refresh served one request at a time.
IssueEmails == {"alice@example.com", "BOB@example.com"}
IssuePasswords == {"password123"}

NextIssue ==
  \/ EnableTwoFA("u2")
  \/ \E e \in IssueEmails, pw \in IssuePasswords, d \in AllDevices :
       /\ login(e, pw).kind = "tokens" => Len(issued) < MaxClockJti
       /\ LoginRequest(e, pw, d)
  \/ \E c \in temps, d \in AllDevices :
       \E code \in Codes(now) :
         /\ verify2FA(TempTokenOf(c), code, now).kind = "tokens"
              => Len(issued) < MaxClockJti
         /\ Verify2FA(TempTokenOf(c), code, d)
  \/ \E t \in Presentable : Rotate("p1", t)
  \/ Len(issued) < MaxClockJti /\ RotateIssue("p1")
  \/ RotateUpdate("p1")
  \/ RevokeFamilyFind("p1")
  \/ RevokeFamilyUpdate("p1")

SpecIssue == Init /\ [][NextIssue]_vars

\* SpecRevoke: every route that revokes rows of one principal, with
\* POST /refresh served one request at a time; the clock stands still.
NextRevoke ==
  \/ \E d \in Devices : Login("u1", d)
  \/ \E t \in Presentable : Rotate("p1", t)
  \/ RotateIssue("p1")
  \/ RotateUpdate("p1")
  \/ RevokeFamilyFind("p1")
  \/ RevokeFamilyUpdate("p1")
  \/ \E t \in Presentable : Logout(t)
  \/ \E h \in Headers : LogoutAllDevices(h)
  \/ \E h \in Headers, j \in Jtis : RevokeSession(h, j)
  \/ \E h \in Headers, d \in Devices : RemoveDevice(h, d)

SpecRevoke == Init /\ [][NextRevoke]_vars

\* SpecSignOut: two principals, sign-out everywhere while one POST /refresh
\* at a time is being served.
NextSignOut ==
  \/ \E u \in Users, d \in Devices : Login(u, d)
  \/ \E t \in Presentable : Rotate("p1", t)
  \/ RotateIssue("p1")
  \/ RotateUpdate("p1")
  \/ RevokeFamilyFind("p1")
  \/ RevokeFamilyUpdate("p1")
  \/ \E h \in Headers : LogoutAllDevices(h)

SpecSignOut == Init /\ [][NextSignOut]_vars

\* SpecClock: one principal signing in and out while the clock runs: tokens
\* expire, the sweep and the account deletion remove rows, access tokens are
\* checked by the middleware and by the socket handshake.
NextClock ==
  \/ Tick
  \/ Len(issued) < MaxClockJti /\ \E d \in Devices : Login("u1", d)
  \/ \E t \in Presentable : Logout(t)
  \/ \E h \in Headers : LogoutAllDevices(h)
  \/ \E h \in Headers : Authenticate(h)
  \/ \E t \in Presentable : SocketAuth(t)
  \/ cleanupExpiredSessions
  \/ \E h \in Headers : DeleteAccount(h)

SpecClock == Init /\ [][NextClock]_vars

\* SpecLogin: password logins and second-factor verifications of the seeded
\* principals while the clock runs; the second principal turns 2FA on.
NextLogin ==
  \/ Tick
  \/ EnableTwoFA("u2")
  \/ \E h \in Headers : DeleteAccount(h)
  \/ \E e \in LoginEmails, pw \in LoginPasswords, d \in Devices :
       /\ login(e, pw).kind = "tokens" => Len(issued) < MaxClockJti
       /\ LoginRequest(e, pw, d)
  \/ \E t \in Presentable, d \in Devices :
       \E code \in Codes(now) :
         /\ verify2FA(t, code, now).kind = "tokens" => Len(issued) < MaxClockJti
         /\ Verify2FA(t, code, d)

SpecLogin == Init /\ [][NextLogin]_vars

\* SpecRegister: overlapping POST /register requests
NextRegister ==
  \/ \E p \in Procs, email \in RegisterEmails, password \in Passwords :
       \E displayName \in Names, age \in Ages :
         RegisterBegin(p, email, password, displayName, age)
  \/ \E p \in Procs : RegisterCreate(p)

SpecRegister == Init /\ [][NextRegister]_vars

TypeOK ==
  /\ now \in 0..MaxTime
  /\ Len(issued) <= MaxJti

\* ------------------------------------------------------- lineage of the rows
\* the rows a rotation of n, or of a row derived from n, created
RECURSIVE Ancestors(_)
Ancestors(j) ==
  IF parent[j] = 0 THEN {} ELSE {parent[j]} \cup Ancestors(parent[j])

DescendantsOf(n) == {j \in IssuedJtis : n \in Ancestors(j)}

Max(S) == CHOOSE x \in S : \A y \in S : y <= x

\* the rows revokeFamily(n) visits: n and what replacedBy links lead to
RECURSIVE Chain(_, _)
Chain(n, fuel) ==
  IF n \notin Jtis \/ fuel = 0 \/ ~sessions[n].present THEN {}
  ELSE {n} \cup Chain(sessions[n].replacedBy, fuel - 1)

\* the rows reached from n along replacedBy in registry S
RECURSIVE ChainIn(_, _, _)
ChainIn(S, n, fuel) ==
  IF n \notin Jtis \/ fuel = 0 \/ ~S[n].present THEN {}
  ELSE {n} \cup ChainIn(S, S[n].replacedBy, fuel - 1)

\* an issued refresh token whose row is revoked or gone
DeadNode(j) == j \in IssuedJtis /\ ~Active(j)

Returned(p) == procs[p].pc = "done" /\ procs[p].resp.status = 200

\* -------------------------------------------------------------------- claims

\* C1: of the concurrent rotateRefresh calls on one refresh token at most one
\* returns a token pair.
C1_AtMostOneWinner ==
  \A p, q \in Procs :
    (p # q /\ Returned(p) /\ Returned(q)) => procs[p].tok.jti # procs[q].tok.jti

\* C2: when a token that was rotated is presented again the call fails, and
\* afterwards the newest token derived from it is not active either.
C2_ReplayLocksOutNewest ==
  \A p \in Procs :
    (/\ procs[p].pc = "done"
     /\ procs[p].resp.message = "Token has been revoked"
     /\ procs[p].session # 0)
    => /\ procs[p].resp.status = 401
       /\ DescendantsOf(procs[p].tok.jti) # {}
       /\ ~Active(Max(DescendantsOf(procs[p].tok.jti)))

\* C3: once two overlapping rotateRefresh calls on one token have both
\* completed, the row a winner created is revoked and so is every row derived
\* from the presented token.
C3_WinnerRevokedAfterRace ==
  \A p, q \in Procs :
    (/\ p # q
     /\ procs[p].pc = "done" /\ procs[q].pc = "done"
     /\ procs[p].tok.jti # 0 /\ procs[p].tok.jti = procs[q].tok.jti
     /\ Returned(p))
    => /\ ~Active(procs[p].newJti)
       /\ \A d \in DescendantsOf(procs[p].tok.jti) : ~Active(d)

\* C4: a successful rotateRefresh returns a refresh token whose jti differs
\* from the presented one, and every later rotateRefresh with the presented
\* token fails whatever happened in between: the presented row is revoked when
\* the call returns, a revoked or deleted row never becomes active again, a
\* call that finds such a row never reaches issueTokens, and only a call that
\* went through issueTokens and the update returns a pair.
C4_FreshJti ==
  \A p \in Procs :
    Returned(p) => /\ procs[p].newJti \in IssuedJtis
                   /\ procs[p].newJti # procs[p].tok.jti
                   /\ DeadNode(procs[p].tok.jti)

DeadStaysDead == \A j \in Jtis : DeadNode(j) => DeadNode(j)'

DeadIsRejected ==
  \A p \in Procs :
    /\ (procs[p].pc = "done" /\ procs'[p].pc = "rr_issue")
         => ~DeadNode(procs'[p].tok.jti)
    /\ (procs'[p].pc = "rr_issue") => procs[p].pc \in {"done", "rr_issue"}
    /\ (procs'[p].pc = "rr_update") => procs[p].pc \in {"rr_issue", "rr_update"}
    /\ (procs'[p] # procs[p] /\ procs'[p].resp.status = 200)
         => procs[p].pc = "rr_update"

C4_OldTokenRetired ==
  /\ [](C4_FreshJti)
  /\ [][DeadStaysDead /\ DeadIsRejected]_vars

\* a rotated token was presented again and the call was rejected
C4_Witness ==
  \E p \in Procs :
    /\ procs[p].pc = "done"
    /\ procs[p].resp.status = 401
    /\ procs[p].resp.message = "Token has been revoked"
    /\ procs[p].session # 0
    /\ sessions[procs[p].tok.jti].replacedBy # 0

\* C5: when no call is in progress, every active row that a rotation of row n
\* created is reached from n along the replacedBy links, so that no two active
\* rows derive from the same row.
C5_LiveChildOnChain ==
  (\A p \in Procs : procs[p].pc = "done")
  => \A j \in IssuedJtis :
       (Active(j) /\ parent[j] # 0 /\ sessions[parent[j]].present)
       => j \in Chain(parent[j], MaxJti + 1)

\* C6: a step of logoutAllDevices for principal P revokes every row of P and
\* leaves the rows of every other principal as they were; the revoked rows
\* stay revoked and a rotateRefresh that finds one never returns a pair.
C6_BulkRevoke ==
  \A h \in Headers :
    (LogoutAllDevices(h) /\ authenticate(h, now) # "")
    => \A j \in Jtis :
         IF sessions[j].present /\ sessions[j].userId = authenticate(h, now)
           THEN sessions'[j] = [sessions[j] EXCEPT !.revoked = TRUE]
           ELSE sessions'[j] = sessions[j]

C7_OthersUnchanged ==
  \A p \in Procs :
    (/\ procs[p].pc \in {"rf_find", "rf_update"}
     /\ procs'[p] # procs[p]
     /\ sessions[procs[p].tok.jti].replacedBy = 0)
    => \A j \in Jtis \ {procs[p].tok.jti} : sessions'[j] = sessions[j]

C7_Fails ==
  \A p \in Procs :
    /\ (/\ procs[p].pc = "done" /\ procs'[p].pc # "done"
        /\ sessions[procs'[p].tok.jti].revoked)
         => procs'[p].pc = "rf_find"
    /\ (procs[p].pc \in {"rf_find", "rf_update"})
         => /\ procs'[p].pc \in {"rf_find", "rf_update", "done"}
            /\ procs'[p].resp.status \in {0, 401}

C7_LoggedOutTokenRejected == [][C7_OthersUnchanged /\ C7_Fails]_vars

\* a logged-out, never rotated token was rejected while another row of the
\* same principal is active
C7_Witness ==
  \E p \in Procs, k \in IssuedJtis :
    /\ procs[p].pc = "done"
    /\ procs[p].resp.status = 401
    /\ procs[p].resp.message = "Token has been revoked"
    /\ procs[p].session = 0
    /\ sessions[procs[p].tok.jti].replacedBy = 0
    /\ k # procs[p].tok.jti
    /\ Active(k)
    /\ sessions[k].userId = sessions[procs[p].tok.jti].userId

\* C8: all rejected rotateRefresh calls send the same response.
C8_SameFailureResponse ==
  \A p, q \in Procs :
    (/\ procs[p].pc = "done" /\ procs[q].pc = "done"
     /\ procs[p].resp.status = 401 /\ procs[q].resp.status = 401)
    => procs[p].resp = procs[q].resp

\* C9: authenticate and the socket handshake accept a token exactly when it is
\* signed, unexpired and of type access, and a step that does not move the
\* clock changes the verdict on no header.
Accepts(t, clock) ==
  t.kind = "jwt" /\ t.sig /\ clock < t.exp /\ t.type = "access"

C9_Verdict ==
  /\ \A h \in Headers :
       (authenticate(h, now) # "") <=> (h.present /\ h.bearer /\ Accepts(h.token, now))
  /\ \A t \in Presentable : (socketAuth(t, now) # "") <=> Accepts(t, now)

C9_RegistryBlind ==
  (now' = now)
  => /\ \A h \in Headers : authenticate(h, now') = authenticate(h, now)
     /\ \A h \in Headers : (Authenticate(h) /\ Accepts(h.token, now)) => last'.status = 200

C9_AccessTokenVerification == [](C9_Verdict) /\ [][C9_RegistryBlind]_vars

\* an access token was accepted although no row is active any more
C9_Witness ==
  /\ last.op = "authenticate" /\ last.status = 200
  /\ IssuedJtis # {}
  /\ \A j \in IssuedJtis : ~Active(j)
  /\ \E j \in IssuedJtis : sessions[j].present /\ sessions[j].revoked

\* C10: logout answers 200 for every token; for a missing, malformed, expired
\* or unknown token it changes no row; a second logout with the same token
\* changes nothing more.
LogoutFails(t) ==
  \/ t.kind # "jwt" \/ ~t.sig \/ now >= t.exp
  \/ t.jti \notin Jtis \/ ~sessions[t.jti].present

C10_Pure ==
  \A t \in Presentable :
    LET once == logout(sessions, t, now) IN
    /\ once.status = 200
    /\ LogoutFails(t) => once.sessions = sessions
    /\ logout(once.sessions, t, now).sessions = once.sessions

C10_Step ==
  \A t \in Presentable :
    Logout(t) => /\ last'.status = 200
                 /\ LogoutFails(t) => sessions' = sessions

C10_LogoutIdempotent == [](C10_Pure) /\ [][C10_Step]_vars

\* a logout whose token was not accepted, with an expired token whose row is
\* still active
C10_Witness ==
  /\ last.op = "logout" /\ last.status = 200
  /\ last.log = "Logout with invalid token"
  /\ \E j \in IssuedJtis : now >= issued[j].iat + RefreshTtlTicks /\ Active(j)

\* the registered principal an email and a password belong to
Holders(e, pw) ==
  {u \in AllUsers : /\ users[u] = "present"
                    /\ creds[u].email = toLowerCase(e)
                    /\ creds[u].passwordHash = bcryptHash(pw)}

\* C11: a login with the password of a principal that has 2FA enabled answers
\* with a challenge, signs a temp token for that principal, returns no token
\* pair and creates no session row.
C11_Step ==
  \A e \in LoginEmails, pw \in LoginPasswords, d \in Devices :
    (/\ LoginRequest(e, pw, d)
     /\ \E u \in Holders(e, pw) : creds[u].twoFAEnabled)
    => /\ reply'.kind = "challenge"
       /\ reply'.status = 200
       /\ \E u \in Holders(e, pw) : [sub |-> u, iat |-> now] \in temps'
       /\ sessions' = sessions
       /\ issued' = issued

C11_ChallengeNotTokens == [][C11_Step]_vars

\* a challenge was returned to a principal that has no session row
C11_Witness ==
  /\ reply.op = "login" /\ reply.kind = "challenge"
  /\ \E c \in temps : /\ creds[c.sub].twoFAEnabled
                      /\ \A j \in IssuedJtis : sessions[j].userId # c.sub

\* C12: verify2FA succeeds exactly for a signed, unexpired temp token of a
\* principal that still has 2FA enabled, with the current code, at any time
\* before the token expires; an attempt, failed
\* or successful, changes the outcome of no attempt; a success creates one new
\* session row and a failure none.
ChallengeChecks(t, code, clock) ==
  /\ t.kind = "jwt" /\ t.sig /\ clock < t.exp /\ t.type = "temp"
  /\ users[t.sub] = "present" /\ creds[t.sub].twoFAEnabled
  /\ code # NoCode
  /\ code = totp(creds[t.sub].totpSecret, clock)

C12_Outcome ==
  \A t \in Presentable : \A code \in Codes(now) :
    (verify2FA(t, code, now).kind = "tokens") <=> ChallengeChecks(t, code, now)

C12_Step ==
  reply'.op = "verify-2fa"
  => \A c \in temps, d \in Devices : \A code \in Codes(now) :
       Verify2FA(TempTokenOf(c), code, d)
       => /\ IF ChallengeChecks(TempTokenOf(c), code, now)
               THEN /\ reply'.kind = "tokens"
                    /\ Len(issued') = Len(issued) + 1
                    /\ sessions'[Len(issued')] =
                         NewSession(c.sub, d, now + RefreshTtlTicks)
                    /\ \A j \in Jtis \ {Len(issued')} :
                         sessions'[j] = sessions[j]
               ELSE /\ reply'.kind = "error"
                    /\ sessions' = sessions /\ issued' = issued
          /\ c \in temps'
          /\ \A code2 \in Codes(now) :
               verify2FA(TempTokenOf(c), code2, now)'
                 = verify2FA(TempTokenOf(c), code2, now)

C12_ChallengeNotConsumed == [](C12_Outcome) /\ [][C12_Step]_vars

\* one challenge was verified twice: two session rows, one temp token
C12_Witness ==
  /\ reply.op = "verify-2fa" /\ reply.kind = "tokens"
  /\ Cardinality(temps) = 1
  /\ \E c \in temps :
       Cardinality({j \in IssuedJtis : sessions[j].userId = c.sub}) >= 2

\* C14: a login with an unknown email and a login with a wrong password get
\* the same 401 response, and neither changes a session, a device, a temp
\* token or a principal.
UnknownEmail(e) == findUserByEmail(toLowerCase(e)) = {}

WrongPassword(e, pw) ==
  findUserByEmail(toLowerCase(e)) # {} /\ Holders(e, pw) = {}

C14_SameError ==
  \A e1 \in LoginEmails \ {""}, e2 \in LoginEmails \ {""} :
    \A pw1 \in LoginPasswords \ {""}, pw2 \in LoginPasswords \ {""} :
      (UnknownEmail(e1) /\ WrongPassword(e2, pw2))
      => /\ login(e1, pw1).kind = "error" /\ login(e2, pw2).kind = "error"
         /\ errorHandler(login(e1, pw1).err) = errorHandler(login(e2, pw2).err)
         /\ errorHandler(login(e1, pw1).err).status = 401

C14_Step ==
  \A e \in LoginEmails \ {""}, pw \in LoginPasswords \ {""}, d \in Devices :
    (LoginRequest(e, pw, d) /\ (UnknownEmail(e) \/ WrongPassword(e, pw)))
    => /\ reply'.kind = "error" /\ reply'.status = 401
       /\ UNCHANGED <<users, creds, sessions, issued, devices, temps>>

C14_LoginFailure == [](C14_SameError) /\ [][C14_Step]_vars

\* a login was refused while a session row and a device row exist
C14_Witness ==
  /\ reply.op = "login" /\ reply.kind = "error" /\ reply.status = 401
  /\ reply.message = "Invalid email or password"
  /\ IssuedJtis # {}
  /\ \E k \in AllUsers \X Devices : devices[k] >= 0

\* C13: a valid registration whose case-folded email belongs to a registered
\* principal fails with 409 whatever its password and creates nothing, and no
\* two principals ever share a case-folded email, also when registrations
\* overlap.
Registered(email) ==
  \E u \in AllUsers :
    users[u] = "present" /\ toLowerCase(creds[u].email) = toLowerCase(email)

C13_UniqueEmail ==
  \A u \in AllUsers, v \in AllUsers :
    (u # v /\ users[u] = "present" /\ users[v] = "present")
    => toLowerCase(creds[u].email) # toLowerCase(creds[v].email)

C13_Step ==
  \A p \in Procs :
    /\ \A email \in RegisterEmails \ {""}, password \in Passwords :
         (/\ RegisterBegin(p, email, password, "Carol", MinAge)
          /\ length(password) >= MinPasswordLength
          /\ Registered(email))
         => /\ regs'[p].pc = "done"
            /\ regs'[p].resp.status = 409
    /\ (RegisterCreate(p) /\ Registered(regs[p].email))
       => /\ regs'[p].resp.status = 409
          /\ UNCHANGED <<users, creds>>

C13_EmailTakenOnce == [](C13_UniqueEmail) /\ [][C13_Step]_vars

\* two overlapping registrations of one case-folded email with different
\* passwords: one created the principal, the other hit the unique index
C13_Witness ==
  \E p \in Procs, q \in Procs :
    /\ regs[p].pc = "done" /\ regs[p].resp.status = 201
    /\ regs[q].pc = "done" /\ regs[q].resp.error = "Conflict"
    /\ toLowerCase(regs[p].email) = toLowerCase(regs[q].email)
    /\ regs[p].email # regs[q].email
    /\ regs[p].password # regs[q].password

\* C15: a replacedBy link that is set is never changed to another value.
C15_Step ==
  \A j \in Jtis :
    (sessions[j].present /\ sessions[j].replacedBy # 0 /\ sessions'[j].present)
    => sessions'[j].replacedBy = sessions[j].replacedBy

C15_SuccessorWrittenOnce == [][C15_Step]_vars

\* C16: at the step where rotateRefresh returns from the walk it started on a
\* replayed token (a revoked row that had a successor), every row reached
\* from that token along replacedBy is revoked, whatever rotations of its
\* descendants other requests made during the walk (no row was rotated twice).
C16_Step ==
  \A p \in Procs :
    (/\ InFlight(p)
     /\ procs'[p].pc = "done"
     /\ procs'[p].resp.message = "Token has been revoked"
     /\ procs'[p].session # 0
     /\ \A a \in IssuedJtis, b \in IssuedJtis :
          (a # b /\ parent[a] # 0) => parent[a] # parent[b])
    => \A j \in ChainIn(sessions', procs'[p].tok.jti, MaxJti + 1) :
         sessions'[j].revoked

C16_WalkRevokesTheChain == [][C16_Step]_vars

\* C17: a row created by a rotation is active together with the row it was
\* rotated from only while that rotation is still being served.
C17_RotationAllOrNothing ==
  \A j \in IssuedJtis :
    (parent[j] # 0 /\ Active(j) /\ Active(parent[j]))
    => \E p \in Procs : procs[p].pc = "rr_update" /\ procs[p].newJti = j

\* C18: a write of revokeFamily that changes a row is the last write of its
\* walk and leaves no active row further down the chain, so a walk that is
\* cut short has changed no row; logoutAllDevices revokes every row of the
\* principal in its one write.
C18_Step ==
  /\ \A p \in Procs :
       (RevokeFamilyUpdate(p) /\ sessions' # sessions)
       => /\ procs'[p].pc = "done"
          /\ \A j \in ChainIn(sessions', procs[p].cur, MaxJti + 1) :
               sessions'[j].revoked
  /\ \A h \in Headers :
       (LogoutAllDevices(h) /\ sessions' # sessions)
       => \A j \in Jtis :
            (sessions[j].present /\ sessions[j].userId = authenticate(h, now))
            => sessions'[j].revoked

C18_WalkAllOrNothing == [][C18_Step]_vars

\* a walk was cut short after its first write, on a chain whose last row is
\* active
C18_Witness ==
  \E p \in Procs :
    /\ procs[p].pc = "done" /\ procs[p].resp = NoResp
    /\ procs[p].cur # 0 /\ procs[p].cur # procs[p].tok.jti
    /\ \E j \in Chain(procs[p].tok.jti, MaxJti + 1) : Active(j)

\* C19: revokeFamily is walked only for a revoked row that had a successor
\* when it was presented.
C19_WalkOnlyOnReplay ==
  \A p \in Procs :
    procs[p].pc \in {"rf_find", "rf_update"} => procs[p].session # 0

\* C20: a rotateRefresh whose token is not signed, is expired, is not of type
\* refresh or names no row is answered with 401 at once, and no session row
\* is created or changed.
BadRefreshToken(t) ==
  /\ t.kind # "none"
  /\ \/ t.kind # "jwt" \/ ~t.sig
     \/ now >= t.exp
     \/ t.type # "refresh"
     \/ t.jti \notin Jtis
     \/ ~sessions[t.jti].present

C20_Step ==
  \A t \in Presentable :
    (Rotate("p1", t) /\ BadRefreshToken(t))
    => /\ procs'["p1"].pc = "done"
       /\ procs'["p1"].resp.status = 401
       /\ procs'["p1"].resp.error = "Unauthorized"
       /\ sessions' = sessions /\ issued' = issued

C20_BadTokenRejected == [][C20_Step]_vars

\* an unexpired, signed refresh token whose row is gone was rejected while
\* nothing else was being served
C20_Witness ==
  /\ procs["p1"].pc = "done"
  /\ procs["p1"].resp.status = 401
  /\ procs["p1"].resp.message = "Session not found"

\* C21: a row that has a successor is revoked, and the step that writes the
\* successor of a row leaves that row revoked.
C21_Inv ==
  \A j \in Jtis :
    (sessions[j].present /\ sessions[j].replacedBy # 0) => sessions[j].revoked

C21_Step ==
  \A j \in Jtis :
    (sessions'[j].present /\ sessions'[j].replacedBy # sessions[j].replacedBy)
    => sessions'[j].revoked

C21_SuccessorImpliesRevoked == [](C21_Inv) /\ [][C21_Step]_vars

\* two overlapping rotations of one row have both written its successor
C21_Witness ==
  \E j \in IssuedJtis :
    /\ sessions[j].replacedBy # 0
    /\ Cardinality({k \in IssuedJtis : parent[k] = j}) = 2
    /\ \A p \in Procs : procs[p].pc = "done"

\* C22: no step turns a revoked row into an active row.
C22_Step ==
  \A j \in Jtis :
    (sessions[j].present /\ sessions[j].revoked /\ sessions'[j].present)
    => sessions'[j].revoked

C22_RevokedStaysRevoked == [][C22_Step]_vars

\* a rotated row was walked by revokeFamily and then written again by the
\* removal of its device
C22_Witness ==
  /\ last.op = "removeDevice" /\ last.status = 200
  /\ procs["p1"].resp.message = "Token has been revoked"
  /\ \E j \in IssuedJtis : sessions[j].revoked /\ sessions[j].replacedBy # 0

\* C23: a logout with a signed, unexpired refresh token whose row exists sets
\* revoked on that row and changes nothing else in the table; no step of
\* logout or logoutAllDevices changes a replacedBy link.
C23_Step ==
  /\ (last'.op = "logout" /\ procs' = procs)
     => \A t \in Presentable :
          Logout(t)
          => /\ \A j \in Jtis : sessions'[j].replacedBy = sessions[j].replacedBy
             /\ (/\ t.kind = "jwt" /\ t.sig /\ now < t.exp /\ t.type = "refresh"
                 /\ sessions[t.jti].present)
                => sessions' =
                     [sessions EXCEPT ![t.jti] = [@ EXCEPT !.revoked = TRUE]]
  /\ (last'.op = "logoutAll" /\ procs' = procs)
     => \A h \in Headers :
          LogoutAllDevices(h)
          => \A j \in Jtis : sessions'[j].replacedBy = sessions[j].replacedBy

C23_LogoutTouchesOneRow == [][C23_Step]_vars

\* a logout was served while a rotated row has an active successor
C23_Witness ==
  /\ last.op = "logout" /\ last.log = "User logged out"
  /\ \E j \in IssuedJtis :
       /\ sessions[j].revoked /\ sessions[j].replacedBy # 0
       /\ Active(sessions[j].replacedBy)

\* C24: a step that issues a token pair creates one row, under a jti that no
\* row ever had, active, without successor, for the principal and the device
\* of the login, of the verified challenge or of the rotated token; every row
\* is the row of the one token issued with its jti.
C24_Inv ==
  \A j \in Jtis :
    sessions[j].present
    => /\ j \in IssuedJtis
       /\ sessions[j].userId = issued[j].sub
       /\ sessions[j].deviceId = issued[j].did

C24_OneNewRow ==
  issued' # issued
  => LET j == Len(issued') IN
     /\ Len(issued') = Len(issued) + 1
     /\ \A k \in IssuedJtis : issued'[k] = issued[k]
     /\ ~sessions[j].present
     /\ sessions'[j].present /\ ~sessions'[j].revoked
     /\ sessions'[j].replacedBy = 0
     /\ \A k \in Jtis \ {j} : sessions'[k] = sessions[k]

C24_Owner ==
  /\ \A e \in IssueEmails, pw \in IssuePasswords, d \in AllDevices :
       (LoginRequest(e, pw, d) /\ reply'.kind = "tokens")
       => /\ issued' # issued
          /\ sessions'[Len(issued')].userId \in Holders(e, pw)
          /\ sessions'[Len(issued')].deviceId = d
  /\ \A c \in temps, d \in AllDevices : \A code \in Codes(now) :
       (Verify2FA(TempTokenOf(c), code, d) /\ reply'.kind = "tokens")
       => /\ issued' # issued
          /\ sessions'[Len(issued')].userId = c.sub
          /\ sessions'[Len(issued')].deviceId = d
  /\ (RotateIssue("p1") /\ procs'["p1"].pc = "rr_update")
     => /\ issued' # issued
        /\ procs'["p1"].newJti = Len(issued')
        /\ sessions'[Len(issued')].userId = sessions[procs["p1"].tok.jti].userId
        /\ sessions'[Len(issued')].deviceId = sessions[procs["p1"].tok.jti].deviceId

C24_IssueCreatesOneRow == [](C24_Inv) /\ [][C24_OneNewRow /\ C24_Owner]_vars

\* a token of the second device was rotated and the rotation returned
C24_Witness ==
  /\ procs["p1"].pc = "done" /\ procs["p1"].resp.status = 200
  /\ procs["p1"].newJti # 0
  /\ sessions[procs["p1"].newJti].deviceId = "d2"
  /\ Active(procs["p1"].newJti)

\* C25: no row is reached from its own successor; each hop of revokeFamily
\* moves to a row created later; the walk that is under way always returns,
\* and when it returns the last row it visited is the newest row derived from
\* the presented token and has no successor.
C25_Acyclic ==
  \A j \in Jtis :
    (sessions[j].present /\ sessions[j].replacedBy # 0)
    => j \notin Chain(sessions[j].replacedBy, MaxJti + 1)

Walking == procs["p1"].pc \in {"rf_find", "rf_update"}

C25_Hop ==
  (procs["p1"].pc = "rf_update" /\ procs'["p1"].pc = "rf_find")
  => procs'["p1"].cur > procs["p1"].cur

C25_End ==
  (Walking /\ procs'["p1"].pc = "done")
  => /\ sessions'[procs["p1"].cur].replacedBy = 0
     /\ procs["p1"].cur =
          Max({procs["p1"].tok.jti} \cup DescendantsOf(procs["p1"].tok.jti))
     /\ procs["p1"].cur \in ChainIn(sessions', procs["p1"].tok.jti, MaxJti + 1)

Rotatable(S, t) ==
  /\ RotateReject(t, IF t.jti \in Jtis THEN S[t.jti] ELSE NoSession, now) = NoResp
  /\ ~S[t.jti].revoked

C26_Step ==
  cleanupExpiredSessions
  => /\ \A j \in Jtis :
          IF sessions[j].present /\ sessions[j].expiresAt < now
            THEN /\ ~sessions'[j].present
                 /\ j \in IssuedJtis
                 /\ jwtVerify(RefreshTokenOf(j), now) = "TokenExpiredError"
            ELSE sessions'[j] = sessions[j]
     /\ UNCHANGED <<users, issued, now, procs, last, parent, acct>>
     /\ \A t \in Presentable \ {NoToken} :
          Rotatable(sessions, t) <=> Rotatable(sessions', t)

C26_SweepIsSafe == [][C26_Step]_vars

\* the sweep has deleted an expired row and left an unexpired one
C26_Witness ==
  /\ users["u1"] = "present"
  /\ \E j \in IssuedJtis : ~sessions[j].present
  /\ \E j \in IssuedJtis : sessions[j].present /\ now < sessions[j].expiresAt

\* C27: a POST /verify-2fa answers with a token pair only when the token is
\* signed, unexpired and of type temp, its principal has 2FA enabled with a
\* secret, and the code checks; with a signed access or refresh token, or with
\* a wrong code for a good challenge, it answers 401 and creates no session row.
GoodChallenge(t) ==
  /\ t.kind = "jwt" /\ t.sig /\ now < t.exp /\ t.type = "temp"
  /\ users[t.sub] = "present"
  /\ creds[t.sub].twoFAEnabled /\ creds[t.sub].totpSecret # ""

C27_Outcome ==
  \A t \in Presentable : \A code \in Codes(now) \ {NoCode} :
    LET r == verify2FA(t, code, now) IN
    /\ r.kind = "tokens"
         => /\ GoodChallenge(t)
            /\ authenticatorCheck(code, creds[t.sub].totpSecret, now)
    /\ \/ t.kind = "jwt" /\ t.sig /\ t.type \in {"access", "refresh"}
       \/ /\ GoodChallenge(t)
          /\ ~authenticatorCheck(code, creds[t.sub].totpSecret, now)
       => /\ r.kind = "error"
          /\ errorHandler(r.err).status = 401
          /\ errorHandler(r.err).error = "Unauthorized"

C27_Step ==
  (reply'.op = "verify-2fa" /\ now' = now /\ users' = users /\ creds' = creds)
  => IF reply'.kind = "error"
       THEN sessions' = sessions /\ issued' = issued
       ELSE /\ Len(issued') = Len(issued) + 1
            /\ \E t \in Presentable, d \in Devices :
                 \E code \in Codes(now) \ {NoCode} :
                   /\ verify2FA(t, code, now).kind = "tokens"
                   /\ Verify2FA(t, code, d)

C27_OnlyChallengesVerify == [](C27_Outcome) /\ [][C27_Step]_vars

\* an unexpired access token of a principal with 2FA enabled was presented as
\* a challenge and refused
C27_Witness ==
  /\ reply.op = "verify-2fa" /\ reply.status = 401
  /\ reply.message = "Invalid token type"
  /\ \E j \in IssuedJtis :
       /\ now < AccessTokenOf(j).exp
       /\ users[issued[j].sub] = "present"
       /\ creds[issued[j].sub].twoFAEnabled

\* C28: from the moment rotateRefresh finds the presented row N revoked until
\* it throws, a step of the call changes only rows reached from N along
\* replacedBy, and of those only the revoked flag; the rows of other logins of
\* the principal and the rows of other principals stay as they are.
C28_Step ==
  LET N == procs["p1"].tok.jti
      reach == ChainIn(sessions, N, MaxJti + 1) IN
  (Walking /\ (RevokeFamilyFind("p1") \/ RevokeFamilyUpdate("p1")))
  => /\ \A j \in Jtis \ reach : sessions'[j] = sessions[j]
     /\ \A j \in reach :
          /\ sessions'[j] = [sessions[j] EXCEPT !.revoked = sessions'[j].revoked]
          /\ sessions[j].revoked => sessions'[j].revoked
     /\ \A j \in IssuedJtis :
          (sessions[j].userId # procs["p1"].tok.sub \/ j < N)
             => sessions'[j] = sessions[j]
     /\ UNCHANGED <<users, issued, parent, acct>>

C28_Detect ==
  \A t \in Presentable :
    (Rotate("p1", t) /\ procs'["p1"].pc = "rf_find") => sessions' = sessions

C29_Step ==
  LET payload == procs["p1"].tok IN
  (/\ RotateUpdate("p1")
   /\ procs'["p1"].resp.status = 200
   /\ sessions[payload.jti].revoked)
  => ~Active(procs["p1"].newJti)'

C29_SignOutBeatsRotation == [][C29_Step]_vars

\* C30: a row leaves the table only in a step of the sweep, and then it is
\* expired; a successor link, once written, stays as it is while the row
\* exists; so the row of a rotated token is present, revoked and linked to its
\* successor for as long as the token is unexpired, and presenting that token
\* again starts the walk of revokeFamily.
Rotated(j) ==
  \E k \in IssuedJtis :
    /\ parent[k] = j
    /\ ~(procs["p1"].pc = "rr_update" /\ procs["p1"].newJti = k)

C30_Kept ==
  \A j \in IssuedJtis :
    (Rotated(j) /\ now < RefreshTokenOf(j).exp)
    => /\ sessions[j].present /\ sessions[j].revoked
       /\ sessions[j].replacedBy # 0
       /\ parent[sessions[j].replacedBy] = j

C30_Step ==
  /\ \A j \in Jtis :
       /\ (sessions[j].present /\ ~sessions'[j].present)
            => cleanupExpiredSessions /\ sessions[j].expiresAt < now
       /\ (sessions[j].present /\ sessions'[j].present
             /\ sessions[j].replacedBy # 0)
            => sessions'[j].replacedBy = sessions[j].replacedBy
  /\ procs' # procs
       => \A t \in Presentable :
            (/\ t.kind = "jwt" /\ t.sig /\ t.type = "refresh" /\ now < t.exp
             /\ Rotated(t.jti) /\ Rotate("p1", t))
            => /\ procs'["p1"].pc = "rf_find"
               /\ procs'["p1"].session = sessions[t.jti].replacedBy
               /\ procs'["p1"].session # 0

====
